---- MODULE Spec2Model ----
(***************************************************************************)
(* A model of the hyrox results scraper: the retry wrapper (utils.py), the *)
(* navigator, extractors and season crawler (scrape.py) and the batch      *)
(* commands (cli.py).  The browser session and the site are the            *)
(* environment: every read of the session is a nondeterministic choice     *)
(* over the outcomes the session can give.                                 *)
(***************************************************************************)
EXTENDS Integers, Sequences, FiniteSets, TLC

(***************************************************************************)
(* Bounds of the model.                                                    *)
(***************************************************************************)
MaxTries == 3
MaxSeason == 11
MaxLinks == 3
MaxPageNo == 5
MaxCrawlSeason == 1
MaxEvents == 2
MaxDivs == 2
MaxGenders == 1
MaxFaults == 2
MaxBatchSeason == 2
MaxCatalogEvents == 2
MaxOldFiles == 1
MaxLbFaults == 1
MaxItems == 3

\* utils.retry_on_stale: the default of tries
DefaultTries == 3

(***************************************************************************)
(* Outcomes of one invocation of a session-dependent operation: it returns *)
(* or raises one of the exception kinds the code distinguishes.            *)
(***************************************************************************)
Ok == "ok"
Stale == "StaleElementReferenceException"
Timeout == "TimeoutException"
NotFound == "NoSuchElementException"
ValueError == "ValueError"
TypeError == "TypeError"
NameError == "NameError"

OtherErrors == {Timeout, NotFound, ValueError}
Outcomes == {Ok, Stale} \cup OtherErrors

(***************************************************************************)
(* utils.retry_on_stale: one iteration of the wrapper's loop, given the    *)
(* outcome of the call of fn at this attempt.                              *)
(***************************************************************************)
wrapper_step_m1(tries, attempt, outcome) ==
    IF outcome = Ok THEN "return"
    ELSE IF outcome = Stale
         THEN IF attempt = tries - 1 \/ attempt = tries THEN "raise" ELSE "continue"
         ELSE "raise"

wrapper_step_m2(tries, attempt, outcome) ==
    IF outcome = Ok THEN "return"
    ELSE IF outcome \in {Stale, Timeout}
         THEN IF attempt = tries THEN "raise" ELSE "continue"
         ELSE "raise"

wrapper_step_m23(tries, attempt, outcome) ==
    IF outcome = Ok THEN "return"
    ELSE IF outcome = Stale THEN "continue"
    ELSE "raise"

wrapper_step(tries, attempt, outcome) ==
    IF outcome = Ok THEN "return"
    ELSE IF outcome = Stale
         THEN IF attempt = tries THEN "raise" ELSE "continue"
         ELSE "raise"

(***************************************************************************)
(* The whole wrapper applied to an operation whose successive invocations  *)
(* give script[1], script[2], ...: the result (Ok or the exception that    *)
(* propagates) and the number of invocations made.                         *)
(***************************************************************************)
RECURSIVE wrapper_from(_, _, _)
wrapper_from(tries, script, attempt) ==
    IF attempt > tries
    THEN [result |-> TypeError, calls |-> attempt - 1]
    ELSE LET ctl == wrapper_step(tries, attempt, script[attempt])
         IN IF ctl = "continue"
            THEN wrapper_from(tries, script, attempt + 1)
            ELSE [result |-> script[attempt], calls |-> attempt]

wrapper(tries, script) == wrapper_from(tries, script, 1)

(***************************************************************************)
(* Text of URLs.  A URL is the sequence of its pieces, the season number   *)
(* written in decimal digits as the f-string writes it, so that            *)
(* str.startswith is a prefix test on sequences.                           *)
(***************************************************************************)
DigitChar == <<"0", "1", "2", "3", "4", "5", "6", "7", "8", "9">>

RECURSIVE Digits(_)
Digits(n) ==
    IF n < 10 THEN <<DigitChar[n + 1]>>
    ELSE Append(Digits(n \div 10), DigitChar[(n % 10) + 1])

startswith(s, prefix) ==
    /\ Len(prefix) <= Len(s)
    /\ SubSeq(s, 1, Len(prefix)) = prefix

None == "None"

\* scrape.navigate_to_results: path_url
path_url(season) == <<"https://results.hyrox.com", "/season-">> \o Digits(season)

\* the address the session shows after it landed on season t with event group g
landed_url(t, g) ==
    path_url(t) \o (IF g = None THEN <<"/">>
                    ELSE <<"/index.php?", "event_main_group=", g, "&pid=list&pidp=ranking_nav">>)

InvalidSeason == "ValueError: season must be an integer greater than 0"
InvalidUrl == "ValueError: Invalid season url"
SeasonMismatch == "ValueError: Season mismatch"

(***************************************************************************)
(* scrape.navigate_to_results, the wrapped body: the outcome of one        *)
(* attempt when the session lands on `page`.  page.season and page.emg     *)
(* are where the site took the session, page.marker the outcome of waiting *)
(* for the marker element, page.switcher the outcome of parse_season       *)
(* (itself retry-wrapped) on that page; the season indicator of a page is  *)
(* the season of the page.                                                 *)
(***************************************************************************)
navigate_body_m7(season, event_main_group, page) ==
    IF season < 1 THEN InvalidSeason
    ELSE IF page.marker # Ok THEN page.marker
    ELSE IF ~startswith(landed_url(page.season, page.emg), path_url(season))
         THEN InvalidUrl
    ELSE IF page.switcher # Ok THEN page.switcher
    ELSE Ok

navigate_body_m8(season, event_main_group, page) ==
    IF season < 1 THEN InvalidSeason
    ELSE IF page.marker # Ok THEN page.marker
    ELSE IF event_main_group # None THEN Ok
    ELSE IF ~startswith(landed_url(page.season, page.emg), path_url(season))
         THEN InvalidUrl
    ELSE IF page.switcher # Ok THEN page.switcher
    ELSE IF page.season # season THEN SeasonMismatch
    ELSE Ok

navigate_body(season, event_main_group, page) ==
    IF season < 1 THEN InvalidSeason
    ELSE IF page.marker # Ok THEN page.marker
    ELSE IF ~startswith(landed_url(page.season, page.emg), path_url(season))
         THEN InvalidUrl
    ELSE IF page.switcher # Ok THEN page.switcher
    ELSE IF page.season # season THEN SeasonMismatch
    ELSE Ok

\* whether the attempt reaches driver.get(url)
navigate_loads_m5(season) == TRUE

navigate_loads(season) == season >= 1

(***************************************************************************)
(* scrape.parse_pagination on a rendered page.  dom.alert: the no-results  *)
(* notice is present; dom.pagination: the pagination control is rendered;  *)
(* dom.links: the control's links in document order, each with the page    *)
(* parameter of its href: absent ("none"), a decimal number ("int") or     *)
(* other text ("text"), on which int() raises.                             *)
(***************************************************************************)
Returned(v) == [raised |-> None, value |-> v]
Raised(e) == [raised |-> e, value |-> 0]

\* int(q.get('page', 1))
page_of(link) == IF link.kind = "none" THEN 1 ELSE link.n

max(a, b) == IF a >= b THEN a ELSE b

RECURSIVE pagination_loop(_, _, _)
pagination_loop(links, idx, n_pages) ==
    IF idx > Len(links) THEN Returned(n_pages)
    ELSE IF links[idx].kind = "text" THEN Raised(ValueError)
    ELSE pagination_loop(links, idx + 1, max(n_pages, page_of(links[idx])))

parse_pagination_m9(dom) ==
    IF ~dom.pagination THEN Returned(1)
    ELSE IF dom.alert THEN Returned(0)
    ELSE pagination_loop(dom.links, 1, 1)

parse_pagination(dom) ==
    IF dom.alert THEN Returned(0)
    ELSE IF ~dom.pagination THEN Returned(1)
    ELSE pagination_loop(dom.links, 1, 1)

(***************************************************************************)
(* The site as the season crawler reads it.  A site has nEvents event      *)
(* groups, each with nDivs divisions, each with nGenders gender options;   *)
(* full: the division dropdown of an event page lists the option groups of *)
(* all event groups of the season, not only its own.                       *)
(***************************************************************************)
GroupLabels == <<"A", "B", "C", "D">>
DivNames == <<"Open", "Pro", "Doubles">>
GenderNames == <<"Men", "Women", "Mixed">>

\* enumerate(x.options) as a sequence of (index, text) pairs, indices from 0
enumerate(texts) == [x \in 1..Len(texts) |-> [index |-> x - 1, text |-> texts[x]]]

\* the option groups of the division dropdown on the page of event group e
DivisionDropdown(site, e) ==
    LET own(g) == [label |-> GroupLabels[g], options |-> SubSeq(DivNames, 1, site.nDivs)]
    IN IF site.full THEN [g \in 1..site.nEvents |-> own(g)] ELSE <<own(e)>>

(***************************************************************************)
(* scrape.get_division_options: the options of the option group labelled   *)
(* event_match_string, keyed by the running count i of the options of the  *)
(* option groups before it plus the position j within the group.           *)
(***************************************************************************)
RECURSIVE division_options_from(_, _, _, _)
division_options_from(optgroups, g, i, event_match_string) ==
    IF g > Len(optgroups) THEN <<>>
    ELSE IF optgroups[g].label = event_match_string
         THEN [x \in 1..Len(optgroups[g].options) |->
                 [index |-> i + (x - 1), text |-> optgroups[g].options[x]]]
         ELSE division_options_from(optgroups, g + 1,
                                     i + Len(optgroups[g].options), event_match_string)

get_division_options(optgroups, event_match_string) ==
    division_options_from(optgroups, 1, 0, event_match_string)

\* scrape.get_gender_options: a timeout of the wait for the gender dropdown
\* is caught and gives the empty mapping
get_gender_options(outcome) == IF outcome = Timeout THEN Ok ELSE outcome

\* what waiting for the gender dropdown gives: a division without gender
\* filter has no such control and the wait times out
GenderDropdown(s) == (IF s.nGenders = 0 THEN {Timeout} ELSE {Ok}) \cup {Stale}

\* the first failure of a sequence of steps run in order, Ok when none fails
RECURSIVE first_failure(_)
first_failure(steps) ==
    IF steps = <<>> THEN Ok
    ELSE IF Head(steps) # Ok THEN Head(steps)
    ELSE first_failure(Tail(steps))

\* the retry-wrapped navigate_to_results on a site that answers every
\* attempt with the same page: the result and the number of attempts
navigate_to_results(season, event_main_group, page) ==
    wrapper(DefaultTries,
            [a \in 1..DefaultTries |-> navigate_body(season, event_main_group, page)])

\* scrape._log_error, as recorded in an error leaf
EventError(i, e) == [event_index |-> i, error |-> e]
DivisionError(idx, e) == [division_index |-> idx, error_type |-> e]
GenderError(idx, e) == [gender_index |-> idx, error_type |-> e]

IsError(entry) == "error" \in DOMAIN entry \/ "error_type" \in DOMAIN entry

VARIABLES
    rTries,     \* retry_on_stale: the tries argument
    rScript,    \* the outcome of each successive invocation of fn
    rAttempt,   \* the loop variable attempt
    rCalls,     \* invocations of fn made so far
    rResult     \* "running", Ok (returned) or the exception propagated

retryVars == <<rTries, rScript, rAttempt, rCalls, rResult>>

VARIABLES
    nSeason,    \* navigate_to_results: the season argument
    nEmg,       \* the event_main_group argument (None when absent)
    nAttempt,   \* the attempt of the retry wrapper around the body
    nLoads,     \* driver.get calls made by the call
    nPage,      \* the page the session shows (NoPage before any load)
    nResult     \* "idle", "running", Ok or the exception propagated

navVars == <<nSeason, nEmg, nAttempt, nLoads, nPage, nResult>>

VARIABLES
    pDom,       \* parse_pagination: the page the driver shows
    pOut        \* NoOut, or what parse_pagination returned or raised

pagVars == <<pDom, pOut>>


(***************************************************************************)
(* The retry wrapper, one loop iteration per step.                         *)
(***************************************************************************)
RetryInit ==
    /\ rTries \in 0..MaxTries
    /\ rScript \in [1..MaxTries -> Outcomes]
    /\ rAttempt = 1
    /\ rCalls = 0
    /\ rResult = "running"

RetryAttempt ==
    /\ rResult = "running"
    /\ rAttempt <= rTries
    /\ LET outcome == rScript[rAttempt]
           ctl == wrapper_step(rTries, rAttempt, outcome)
       IN /\ rCalls' = rCalls + 1
          /\ rResult' = IF ctl = "continue" THEN "running" ELSE outcome
          /\ rAttempt' = IF ctl = "continue" THEN rAttempt + 1 ELSE rAttempt
    /\ UNCHANGED <<rTries, rScript>>

RetryFallThrough ==
    /\ rResult = "running"
    /\ rAttempt > rTries
    /\ rResult' = TypeError
    /\ UNCHANGED <<rTries, rScript, rAttempt, rCalls>>

RetryIdle ==
    /\ rTries = 0
    /\ rScript = <<>>
    /\ rAttempt = 0
    /\ rCalls = 0
    /\ rResult = "idle"

(***************************************************************************)
(* navigate_to_results called on a fresh session, one attempt of its       *)
(* retry wrapper per step.  The site decides where each load lands.        *)
(***************************************************************************)
Groups == {"A", "B"}
NoPage == [season |-> 0, emg |-> None, marker |-> None, switcher |-> None]

Pages ==
    [season : 1..MaxSeason, emg : Groups \cup {None},
     marker : {Ok, Timeout}, switcher : {Ok, Stale, Timeout}]

NavIdle ==
    /\ nSeason = 0
    /\ nEmg = None
    /\ nAttempt = 0
    /\ nLoads = 0
    /\ nPage = NoPage
    /\ nResult = "idle"

NavInit ==
    /\ nSeason \in 0..MaxSeason
    /\ nEmg \in Groups \cup {None}
    /\ nAttempt = 1
    /\ nLoads = 0
    /\ nPage = NoPage
    /\ nResult = "running"

NavAttempt ==
    /\ nResult = "running"
    /\ nAttempt <= DefaultTries
    /\ \E page \in Pages :
         LET outcome == navigate_body(nSeason, nEmg, page)
             ctl == wrapper_step(DefaultTries, nAttempt, outcome)
         IN /\ nLoads' = IF navigate_loads(nSeason) THEN nLoads + 1 ELSE nLoads
            /\ nPage' = IF navigate_loads(nSeason) THEN page ELSE nPage
            /\ nResult' = IF ctl = "continue" THEN "running" ELSE outcome
            /\ nAttempt' = IF ctl = "continue" THEN nAttempt + 1 ELSE nAttempt
    /\ UNCHANGED <<nSeason, nEmg>>

(***************************************************************************)
(* parse_pagination applied to every page of the bounded shapes.           *)
(***************************************************************************)
SeqsUpTo(S, n) == UNION {[1..k -> S] : k \in 0..n}

LinkParams ==
    {[kind |-> "none", n |-> 0], [kind |-> "text", n |-> 0]}
        \cup {[kind |-> "int", n |-> m] : m \in 0..MaxPageNo}

NoOut == [raised |-> "NoOut", value |-> 0]
NoDom == [alert |-> FALSE, pagination |-> FALSE, links |-> <<>>]

Doms ==
    {[alert |-> a, pagination |-> g, links |-> l] :
        a \in BOOLEAN, g \in BOOLEAN, l \in SeqsUpTo(LinkParams, MaxLinks)}

PagIdle ==
    /\ pDom = NoDom
    /\ pOut = NoOut

PagInit ==
    /\ pDom \in {d \in Doms : d.pagination \/ d.links = <<>>}
    /\ pOut = NoOut

ParsePagination ==
    /\ pOut = NoOut
    /\ pOut' = parse_pagination(pDom)
    /\ UNCHANGED pDom


VARIABLES
    cSeason,            \* scrape_hyrox_season: the season argument
    site,               \* the site the session browses
    cPc,                \* where the crawl stands
    cError,             \* the exception the crawl raised (None when none)
    cSession,           \* "none", "open" or "quit": the crawl's driver
    cLaunched,          \* launch_driver calls
    cLoads,             \* driver.get calls
    cFaults,            \* failures the environment has produced so far
    season_dict,        \* the catalog being built
    event_main_groups,  \* enumerate(main_dropdown.options)
    cI,                 \* position of the event loop in event_main_groups
    event_dict,         \* the event entry being built
    division_options,   \* get_division_options(driver, emg)
    cJ,                 \* position of the division loop in division_options
    division_dict,      \* the division entry being built
    gender_options,     \* get_gender_options(driver)
    cK,                 \* position of the gender loop in gender_options
    k,                  \* the variable k: <<>> while unbound, <<value>> once bound
    cFailed,            \* history: the nodes whose steps raised, <<level, i, j, k>>
    cSel,               \* the session: the division and the gender last selected
    cReads              \* history: the state of the session at the last reads

crawlVars ==
    <<cSeason, site, cPc, cError, cSession, cLaunched, cLoads, cFaults, season_dict,
      event_main_groups, cI, event_dict, division_options, cJ, division_dict,
      gender_options, cK, k, cFailed, cSel, cReads>>

(***************************************************************************)
(* scrape_hyrox_season.  A step is one stretch of the function between two *)
(* loop heads; its session-dependent calls fail or succeed as the          *)
(* environment decides, at most MaxFaults failures in one crawl.           *)
(***************************************************************************)
Sites ==
    [nEvents : 1..MaxEvents, nDivs : 0..MaxDivs, nGenders : 0..MaxGenders,
     full : BOOLEAN]

NoSite == [nEvents |-> 0, nDivs |-> 0, nGenders |-> 0, full |-> FALSE]
NoEntry == [none |-> TRUE]

\* a retry-wrapped step of the crawl returns, or raises staleness once its
\* attempts are used up
StepErrors == {Stale}
StepOutcomes == {Ok} \cup StepErrors

\* the pages a load of the crawl can land on
CrawlPages(season, emg) ==
    [season : {season, season + 1}, emg : {emg},
     marker : {Ok}, switcher : {Ok, Stale}]

\* the page of (event i, division j, gender k) as parse_pagination sees it
SiteDom(i, j, kk) ==
    IF (i + j + kk) % 3 = 0
    THEN [alert |-> TRUE, pagination |-> FALSE, links |-> <<>>]
    ELSE IF (i + j + kk) % 3 = 1
    THEN [alert |-> FALSE, pagination |-> FALSE, links |-> <<>>]
    ELSE [alert |-> FALSE, pagination |-> TRUE,
          links |-> <<[kind |-> "int", n |-> 1], [kind |-> "int", n |-> 2]>>]

(***************************************************************************)
(* scrape.select_results_from_dropdowns: the dropdowns of its body and     *)
(* what a run of the body leaves selected on the session.                  *)
(***************************************************************************)
\* lines 232-245: the dropdowns the body fetches, in the order of the code
select_steps_m18(gender_index) ==
    (IF gender_index # <<>> THEN <<"sex">> ELSE <<>>) \o <<"event", "ranking", "age_class">>

select_steps_m20(gender_index) ==
    (IF gender_index # <<>> THEN <<"sex">> ELSE <<>>) \o <<"ranking", "age_class", "event">>

select_steps(gender_index) ==
    <<"event", "ranking", "age_class">> \o (IF gender_index # <<>> THEN <<"sex">> ELSE <<>>)

\* what the body does with a dropdown it has fetched: the selection made,
\* none when a filter has no options
selection(control, division_index, gender_index, options) ==
    CASE control = "event" -> <<[control |-> "event", index |-> division_index]>>
      [] control = "ranking" ->
            IF options.ranking THEN <<[control |-> "ranking", text |-> "Total"]>> ELSE <<>>
      [] control = "age_class" ->
            IF options.age_class THEN <<[control |-> "age_class", text |-> "All"]>> ELSE <<>>
      [] control = "sex" -> <<[control |-> "sex", index |-> gender_index[1]]>>

\* the session before any selection: the dropdowns show their first option
NoSelection == [division |-> <<>>, gender |-> <<>>]
NoReads == [options |-> <<>>, pages |-> <<>>]

\* a selection made on the session: selecting a division reloads the page,
\* which puts the gender dropdown back to its first option
apply_selection(sel, made) ==
    IF made = <<>> THEN sel
    ELSE IF made[1].control = "event"
    THEN [division |-> <<made[1].index>>, gender |-> <<>>]
    ELSE IF made[1].control = "sex"
    THEN [sel EXCEPT !.gender = <<made[1].index>>]
    ELSE sel

\* the session after the first n dropdowns of one run of the body
RECURSIVE select_prefix(_, _, _, _)
select_prefix(sel, n, division_index, gender_index) ==
    IF n = 0 THEN sel
    ELSE apply_selection(select_prefix(sel, n - 1, division_index, gender_index),
                         selection(select_steps(gender_index)[n], division_index,
                                   gender_index, [ranking |-> TRUE, age_class |-> TRUE]))

\* the session after select_results_from_dropdowns: the whole body when the
\* call returned, any part of it when the call raised
sessions_after_select(sel, division_index, gender_index, outcome) ==
    LET steps == Len(select_steps(gender_index))
    IN IF outcome = Ok THEN {select_prefix(sel, steps, division_index, gender_index)}
       ELSE {select_prefix(sel, n, division_index, gender_index) : n \in 0..(steps - 1)}

\* the leaderboard the session shows for event group i under its selection
page_shown(i, sel) ==
    SiteDom(i, IF sel.division = <<>> THEN 0 ELSE sel.division[1],
               IF sel.gender = <<>> THEN 0 ELSE sel.gender[1])

MayFail(outcome) == outcome = Ok \/ cFaults < MaxFaults
Charge(outcome) == IF outcome = Ok THEN cFaults ELSE cFaults + 1

CrawlIdle ==
    /\ cSeason = 0
    /\ site = NoSite
    /\ cPc = "idle"
    /\ cError = None
    /\ cSession = "none"
    /\ cLaunched = 0
    /\ cLoads = 0
    /\ cFaults = 0
    /\ season_dict = NoEntry
    /\ event_main_groups = <<>>
    /\ cI = 0
    /\ event_dict = NoEntry
    /\ division_options = <<>>
    /\ cJ = 0
    /\ division_dict = NoEntry
    /\ gender_options = <<>>
    /\ cK = 0
    /\ k = <<>>
    /\ cFailed = {}
    /\ cSel = NoSelection
    /\ cReads = NoReads

CrawlInit ==
    /\ cSeason \in 0..MaxCrawlSeason
    /\ site \in Sites
    /\ cPc = "start"
    /\ cError = None
    /\ cSession = "none"
    /\ cLaunched = 0
    /\ cLoads = 0
    /\ cFaults = 0
    /\ season_dict = NoEntry
    /\ event_main_groups = <<>>
    /\ cI = 0
    /\ event_dict = NoEntry
    /\ division_options = <<>>
    /\ cJ = 0
    /\ division_dict = NoEntry
    /\ gender_options = <<>>
    /\ cK = 0
    /\ k = <<>>
    /\ cFailed = {}
    /\ cSel = NoSelection
    /\ cReads = NoReads

\* lines 309-312: the argument check, then launch_driver()
CrawlStart ==
    /\ cPc = "start"
    /\ IF cSeason < 1
       THEN /\ cPc' = "raised"
            /\ cError' = InvalidSeason
            /\ UNCHANGED <<cSession, cLaunched>>
       ELSE /\ cPc' = "root"
            /\ cSession' = "open"
            /\ cLaunched' = cLaunched + 1
            /\ UNCHANGED cError
    /\ UNCHANGED <<cSeason, site, cLoads, cFaults, season_dict, event_main_groups, cI,
                   event_dict, division_options, cJ, division_dict, gender_options,
                   cK, k, cFailed,
                   cSel, cReads>>

\* lines 313-325: the season root, the season identity, the event groups
CrawlRoot ==
    /\ cPc = "root"
    /\ \E page \in CrawlPages(cSeason, None), parsed \in StepOutcomes,
          dropdown \in StepOutcomes :
         LET nav == navigate_to_results(cSeason, None, page)
             number == page.season
             outcome == first_failure(<<nav.result, parsed,
                                        IF number # cSeason THEN SeasonMismatch ELSE Ok,
                                        dropdown>>)
         IN /\ MayFail(outcome)
            /\ cFaults' = Charge(outcome)
            /\ cLoads' = cLoads + (IF navigate_loads(cSeason) THEN nav.calls ELSE 0)
            /\ IF outcome # Ok
               THEN /\ cPc' = "raised"
                    /\ cError' = outcome
                    /\ UNCHANGED <<season_dict, event_main_groups, cI>>
               ELSE /\ cPc' = "events"
                    /\ season_dict' = [season |-> cSeason, events |-> <<>>]
                    /\ event_main_groups' =
                           enumerate(SubSeq(GroupLabels, 1, site.nEvents))
                    /\ cI' = 1
                    /\ UNCHANGED cError
    /\ UNCHANGED <<cSeason, site, cSession, cLaunched, event_dict, division_options, cJ,
                   division_dict, gender_options, cK, k, cFailed,
                   cSel, cReads>>

\* line 371: season_dict['events'].append(event_dict), then the next group
AppendEvent(entry) ==
    /\ season_dict' = [season_dict EXCEPT !.events = Append(@, entry)]
    /\ cI' = cI + 1
    /\ cPc' = "events"

\* lines 333-341: navigate scoped to the group, its divisions, its event id
CrawlEvent ==
    /\ cPc = "events"
    /\ cI <= Len(event_main_groups)
    /\ LET i == event_main_groups[cI].index
           emg == event_main_groups[cI].text
       IN \E page \in CrawlPages(cSeason, emg), options \in StepOutcomes,
             event_id \in StepOutcomes :
            LET nav == navigate_to_results(cSeason, emg, page)
                outcome == first_failure(<<nav.result, options, event_id>>)
                found == get_division_options(DivisionDropdown(site, cI), emg)
            IN /\ MayFail(outcome)
               /\ cFaults' = Charge(outcome)
               /\ cLoads' = cLoads + nav.calls
               /\ cFailed' = IF outcome # Ok THEN cFailed \cup {<<"event", i>>} ELSE cFailed
               /\ cSel' = NoSelection
               /\ IF outcome # Ok
                  THEN /\ event_dict' = EventError(i, outcome)
                       /\ AppendEvent(EventError(i, outcome))
                       /\ UNCHANGED <<division_options, cJ>>
                  ELSE /\ event_dict' =
                              [event_index |-> i,
                               event_id |-> <<emg>>,
                               event_main_group |-> emg,
                               divisions |-> <<>>]
                       /\ division_options' = found
                       /\ cJ' = 1
                       /\ cPc' = "divisions"
                       /\ UNCHANGED <<season_dict, cI>>
    /\ UNCHANGED <<cSeason, site, cError, cSession, cLaunched, event_main_groups,
                   division_dict, gender_options, cK, k, cReads>>

\* lines 372-373: the loop over the event groups is over
CrawlReturn ==
    /\ cPc = "events"
    /\ cI > Len(event_main_groups)
    /\ cSession' = "quit"
    /\ cPc' = "returned"
    /\ UNCHANGED <<cSeason, site, cError, cLaunched, cLoads, cFaults, season_dict,
                   event_main_groups, cI, event_dict, division_options, cJ,
                   division_dict, gender_options, cK, k, cFailed,
                   cSel, cReads>>

\* lines 366-368: the handler of a failed division.  It reads k, the
\* variable of the gender loop: unbound until that loop has run once in this
\* call, which makes the handler itself raise NameError into the handler of
\* the event (lines 369-371).
division_handler(j, kvar, e) ==
    IF kvar = <<>>
    THEN [raised |-> NameError, entry |-> NoEntry]
    ELSE [raised |-> None, entry |-> DivisionError(kvar[1], e)]

\* lines 343-354: select the division, read its display names, its event id
\* and its gender options
CrawlDivision ==
    /\ cPc = "divisions"
    /\ cJ <= Len(division_options)
    /\ LET i == event_main_groups[cI].index
           j == division_options[cJ].index
           div == division_options[cJ].text
       IN \E selected \in StepOutcomes, display \in StepOutcomes \cup {ValueError},
             event_id \in StepOutcomes, genders \in GenderDropdown(site) :
            LET outcome == first_failure(<<selected, display, event_id,
                                           get_gender_options(genders)>>)
                handled == division_handler(j, k, outcome)
            IN /\ MayFail(outcome)
               /\ cFaults' = Charge(outcome)
               /\ cFailed' = IF outcome # Ok THEN cFailed \cup {<<"division", i, j>>}
                             ELSE cFailed
               /\ cSel' \in sessions_after_select(cSel, j, <<>>, selected)
               /\ cReads' = IF first_failure(<<selected, display, event_id>>) = Ok
                             THEN [cReads EXCEPT
                                     !.options = <<[division_index |-> j, session |-> cSel']>>]
                             ELSE cReads
               /\ IF outcome = Ok
                  THEN /\ division_dict' =
                              [division_index |-> j,
                               division_name |-> div,
                               event_id |-> <<event_main_groups[cI].text, j>>,
                               genders |-> <<>>]
                       /\ gender_options' =
                              IF genders = Timeout THEN <<>>
                              ELSE enumerate(SubSeq(GenderNames, 1, site.nGenders))
                       /\ cK' = 1
                       /\ cPc' = "genders"
                       /\ UNCHANGED <<season_dict, cI, event_dict, cJ>>
                  ELSE IF handled.raised # None
                  THEN /\ event_dict' = EventError(i, handled.raised)
                       /\ AppendEvent(EventError(i, handled.raised))
                       /\ UNCHANGED <<division_dict, gender_options, cK, cJ>>
                  ELSE /\ division_dict' = handled.entry
                       /\ event_dict' =
                              [event_dict EXCEPT !.divisions = Append(@, handled.entry)]
                       /\ cJ' = cJ + 1
                       /\ UNCHANGED <<season_dict, cI, cPc, gender_options, cK>>
    /\ UNCHANGED <<cSeason, site, cError, cSession, cLaunched, cLoads,
                   event_main_groups, division_options, k>>

\* line 371 after the loop over the divisions: the event entry is appended
CrawlEventDone ==
    /\ cPc = "divisions"
    /\ cJ > Len(division_options)
    /\ AppendEvent(event_dict)
    /\ UNCHANGED <<cSeason, site, cError, cSession, cLaunched, cLoads, cFaults,
                   event_main_groups, event_dict, division_options, cJ, division_dict,
                   gender_options, cK, k, cFailed,
                   cSel, cReads>>

\* lines 355-365: one gender of the division
CrawlGender ==
    /\ cPc = "genders"
    /\ cK <= Len(gender_options)
    /\ LET i == event_main_groups[cI].index
           j == division_options[cJ].index
           kk == gender_options[cK].index
           gdr == gender_options[cK].text
       IN \E selected \in StepOutcomes, pagination \in StepOutcomes :
            LET outcome == first_failure(<<selected, pagination>>)
                n_pages == parse_pagination(page_shown(i, cSel')).value
                gender_dict ==
                    IF outcome = Ok
                    THEN [gender_index |-> kk, gender |-> gdr, n_pages |-> n_pages]
                    ELSE GenderError(kk, outcome)
            IN /\ MayFail(outcome)
               /\ cFaults' = Charge(outcome)
               /\ k' = <<kk>>
               /\ cFailed' = IF outcome # Ok THEN cFailed \cup {<<"gender", i, j, kk>>}
                             ELSE cFailed
               /\ cSel' \in sessions_after_select(cSel, j, <<kk>>, selected)
               /\ cReads' = IF outcome = Ok
                             THEN [cReads EXCEPT
                                     !.pages = <<[division_index |-> j, gender_index |-> kk,
                                                  session |-> cSel']>>]
                             ELSE cReads
               /\ division_dict' =
                      [division_dict EXCEPT !.genders = Append(@, gender_dict)]
               /\ cK' = cK + 1
    /\ UNCHANGED <<cSeason, site, cPc, cError, cSession, cLaunched, cLoads, season_dict,
                   event_main_groups, cI, event_dict, division_options, cJ,
                   gender_options>>

\* line 368 after the loop over the genders: the division entry is appended
CrawlDivisionDone ==
    /\ cPc = "genders"
    /\ cK > Len(gender_options)
    /\ event_dict' = [event_dict EXCEPT !.divisions = Append(@, division_dict)]
    /\ cJ' = cJ + 1
    /\ cPc' = "divisions"
    /\ UNCHANGED <<cSeason, site, cError, cSession, cLaunched, cLoads, cFaults,
                   season_dict, event_main_groups, cI, division_options, division_dict,
                   gender_options, cK, k, cFailed,
                   cSel, cReads>>

VARIABLES
    bPc,        \* scrape_divisions_command: "idle", "start", "loop", "crawl", "returned", "raised"
    bStart,     \* season_start
    bEnd,       \* season_end: <<>> for None, <<n>> otherwise
    bOverwrite, \* overwrite
    bSeason,    \* the loop variable season
    bLast,      \* the last season of the range, once the range is validated
    bFiles,     \* out_dir: for each season, what season-<n>.json holds
    bError      \* the exception the command raised (None when none)

batchVars == <<bPc, bStart, bEnd, bOverwrite, bSeason, bLast, bFiles, bError>>

(***************************************************************************)
(* cli.scrape_divisions_command.  The site's latest season is              *)
(* MaxBatchSeason; every season is crawled on BatchSite.                   *)
(***************************************************************************)
BatchSite == [nEvents |-> 1, nDivs |-> 1, nGenders |-> 1, full |-> FALSE]

Absent == "absent"
OldFile == "written by an earlier run"
NewFile == "written by this run"

InvalidStart == "ValueError: season_start must be an integer greater than 0"
InvalidRange == "ValueError: season range"

BatchIdle ==
    /\ bPc = "idle"
    /\ bStart = 0
    /\ bEnd = <<>>
    /\ bOverwrite = FALSE
    /\ bSeason = 0
    /\ bLast = 0
    /\ bFiles = <<>>
    /\ bError = None

BatchInit ==
    /\ bPc = "start"
    /\ bStart \in 0..(MaxBatchSeason + 1)
    /\ bEnd \in {<<>>} \cup {<<n>> : n \in 1..(MaxBatchSeason + 1)}
    /\ bOverwrite \in BOOLEAN
    /\ bSeason = 0
    /\ bLast = 0
    /\ bFiles \in [1..MaxBatchSeason -> {Absent, OldFile}]
    /\ bError = None

\* the locals of a call of scrape_hyrox_season(season), before its first line
CrawlCalled(season) ==
    /\ cSeason' = season
    /\ cPc' = "start"
    /\ cError' = None
    /\ cSession' = "none"
    /\ season_dict' = NoEntry
    /\ event_main_groups' = <<>>
    /\ cI' = 0
    /\ event_dict' = NoEntry
    /\ division_options' = <<>>
    /\ cJ' = 0
    /\ division_dict' = NoEntry
    /\ gender_options' = <<>>
    /\ cK' = 0
    /\ k' = <<>>
    /\ cFailed' = {}
    /\ cSel' = NoSelection
    /\ cReads' = NoReads

crawlLocals ==
    <<cSeason, cPc, cError, cSession, season_dict, event_main_groups, cI, event_dict,
      division_options, cJ, division_dict, gender_options, cK, k, cFailed,
                   cSel, cReads>>

\* whether the command reaches get_latest_hyrox_season()
command_probes(season_start) == season_start >= 1

\* lines 20-35: the argument check, get_latest_hyrox_season (retry-wrapped:
\* launch_driver, driver.get, parse_season, driver.close) and the checks of
\* the range against the latest season
BatchStart ==
    /\ bPc = "start"
    /\ IF ~command_probes(bStart)
       THEN /\ bPc' = "raised"
            /\ bError' = InvalidStart
            /\ UNCHANGED <<bLast, bSeason, cLaunched, cLoads, cFaults>>
       ELSE \E parsed \in StepOutcomes \cup {Timeout} :
              LET probe == wrapper(DefaultTries, [a \in 1..DefaultTries |-> parsed])
                  latest_season == MaxBatchSeason
                  season_end == IF bEnd = <<>> THEN latest_season ELSE bEnd[1]
              IN /\ MayFail(parsed)
                 /\ cFaults' = Charge(parsed)
                 /\ cLaunched' = cLaunched + probe.calls
                 /\ cLoads' = cLoads + probe.calls
                 /\ IF probe.result # Ok
                    THEN /\ bPc' = "raised"
                         /\ bError' = probe.result
                         /\ UNCHANGED <<bLast, bSeason>>
                    ELSE IF season_end > latest_season \/ season_end < bStart
                              \/ bStart > latest_season
                    THEN /\ bPc' = "raised"
                         /\ bError' = InvalidRange
                         /\ UNCHANGED <<bLast, bSeason>>
                    ELSE /\ bPc' = "loop"
                         /\ bLast' = season_end
                         /\ bSeason' = bStart
                         /\ UNCHANGED bError
    /\ UNCHANGED <<bStart, bEnd, bOverwrite, bFiles, site, crawlLocals>>

\* line 49: not overwrite and (out_dir / f"season-{season}.json").exists()
season_skipped_m15(overwrite, file_exists) == file_exists

season_skipped(overwrite, file_exists) == ~overwrite /\ file_exists

\* lines 48-50: a season whose file exists is skipped unless overwrite
BatchSkip ==
    /\ bPc = "loop"
    /\ bSeason <= bLast
    /\ season_skipped(bOverwrite, bFiles[bSeason] # Absent)
    /\ bSeason' = bSeason + 1
    /\ UNCHANGED <<bPc, bStart, bEnd, bOverwrite, bLast, bFiles, bError, crawlVars>>

\* line 51: scrape_hyrox_season(season) is called
BatchCrawl ==
    /\ bPc = "loop"
    /\ bSeason <= bLast
    /\ ~season_skipped(bOverwrite, bFiles[bSeason] # Absent)
    /\ bPc' = "crawl"
    /\ CrawlCalled(bSeason)
    /\ UNCHANGED <<bStart, bEnd, bOverwrite, bSeason, bLast, bFiles, bError, site,
                   cLaunched, cLoads, cFaults>>

\* lines 52-53: the catalog the crawl returned is written
BatchWrite ==
    /\ bPc = "crawl"
    /\ cPc = "returned"
    /\ bFiles' = [bFiles EXCEPT ![bSeason] = NewFile]
    /\ bSeason' = bSeason + 1
    /\ bPc' = "loop"
    /\ cPc' = "idle"
    /\ UNCHANGED <<bStart, bEnd, bOverwrite, bLast, bError, site, cLaunched, cLoads,
                   cFaults, cSeason, cError, cSession, season_dict, event_main_groups, cI,
                   event_dict, division_options, cJ, division_dict, gender_options, cK, k,
                   cFailed,
                   cSel, cReads>>

\* line 51: an exception of scrape_hyrox_season leaves the command
BatchPropagate ==
    /\ bPc = "crawl"
    /\ cPc = "raised"
    /\ bPc' = "raised"
    /\ bError' = cError
    /\ cPc' = "idle"
    /\ UNCHANGED <<bStart, bEnd, bOverwrite, bSeason, bLast, bFiles, site, cLaunched,
                   cLoads, cFaults, cSeason, cError, cSession, season_dict,
                   event_main_groups, cI, event_dict, division_options, cJ, division_dict,
                   gender_options, cK, k, cFailed,
                   cSel, cReads>>

\* lines 55-56: the range is done
BatchReturn ==
    /\ bPc = "loop"
    /\ bSeason > bLast
    /\ bPc' = "returned"
    /\ UNCHANGED <<bStart, bEnd, bOverwrite, bSeason, bLast, bFiles, bError, crawlVars>>

\* the command is entered on a site whose seasons all look like BatchSite
BatchEntered ==
    /\ BatchInit
    /\ site = BatchSite
    /\ cSeason = 0 /\ cPc = "idle" /\ cError = None /\ cSession = "none"
    /\ cLaunched = 0 /\ cLoads = 0 /\ cFaults = 0 /\ season_dict = NoEntry
    /\ event_main_groups = <<>> /\ cI = 0 /\ event_dict = NoEntry
    /\ division_options = <<>> /\ cJ = 0 /\ division_dict = NoEntry
    /\ gender_options = <<>> /\ cK = 0 /\ k = <<>> /\ cFailed = {}
    /\ cSel = NoSelection /\ cReads = NoReads

\* scrape_hyrox_season is entered directly, on BatchSite
CrawlEntered == CrawlInit /\ site = BatchSite /\ BatchIdle

(***************************************************************************)
(* cli.clean_data and the records scrape_leaderboards_command builds.      *)
(***************************************************************************)
KeyError == "KeyError"
InvalidSex == "ValueError: Invalid sex"

\* gender.lower() == 'mixed'
is_mixed(gender) == gender \in {"Mixed", "mixed", "MIXED"}

\* gender[0].upper()
first_upper(gender) ==
    CASE gender \in {"Men", "men"} -> "M"
      [] gender \in {"Women", "women"} -> "W"
      [] gender \in {"Mixed", "mixed", "MIXED"} -> "M"
      [] gender = "Female" -> "F"
      [] OTHER -> "A"

sex_of(gender) == IF is_mixed(gender) THEN "X" ELSE first_upper(gender)

RECURSIVE Flatten(_)
Flatten(seqs) == IF seqs = <<>> THEN <<>> ELSE Head(seqs) \o Flatten(Tail(seqs))

\* gender.get('n_pages', 0) > 0
has_pages(gender) == "n_pages" \in DOMAIN gender /\ gender.n_pages > 0

\* lines 59-75.  The comprehension subscripts event['divisions'] and
\* division['genders']: an entry without that key raises KeyError.
clean_data(seasons) ==
    IF \E x \in 1..Len(seasons) : \E y \in 1..Len(seasons[x].events) :
          LET event == seasons[x].events[y]
          IN \/ "divisions" \notin DOMAIN event
             \/ \E z \in 1..Len(event.divisions) :
                   "genders" \notin DOMAIN event.divisions[z]
    THEN [raised |-> KeyError, records |-> <<>>]
    ELSE LET of_division(season, event, division) ==
                 LET kept == SelectSeq(division.genders, has_pages)
                 IN [g \in 1..Len(kept) |->
                       [season |-> season.season,
                        event_id |-> division.event_id,
                        event_main_group |-> event.event_main_group,
                        division_name |-> division.division_name,
                        gender |-> kept[g].gender,
                        sex |-> sex_of(kept[g].gender),
                        n_pages |-> kept[g].n_pages]]
             of_event(season, event) ==
                 Flatten([z \in 1..Len(event.divisions) |->
                             of_division(season, event, event.divisions[z])])
             of_season(season) ==
                 Flatten([y \in 1..Len(season.events) |->
                             of_event(season, season.events[y])])
         IN [raised |-> None,
             records |-> Flatten([x \in 1..Len(seasons) |-> of_season(seasons[x])])]

\* cli.form_file_path: the directory of a record below out_dir
form_file_path(season, event, sex) == <<season, event, sex>>

\* lines 105-113: event_id renamed to event, sex and file_path added
reformat(record) ==
    [season |-> record.season,
     event |-> record.event_id,
     event_main_group |-> record.event_main_group,
     division_name |-> record.division_name,
     gender |-> record.gender,
     sex |-> sex_of(record.gender),
     n_pages |-> record.n_pages,
     file_path |-> form_file_path(record.season, record.event_id, sex_of(record.gender))]

\* the file of a page of a record: lb_path / f'page={page}.json'
page_file(record, page) == Append(record.file_path, page)

\* line 120: glob.glob(str(out_dir / '**' / '*.json')) without recursive=True,
\* where '**' matches one directory level: the files two levels below out_dir
glob_existing(files) == {f \in files : Len(f) = 2}

\* lines 117-125: the records kept for this run
planned(records, files, overwrite) ==
    IF overwrite THEN records
    ELSE LET existing_files == glob_existing(files)
             keep(record) == record.file_path \notin existing_files
         IN SelectSeq(records, keep)

\* line 137: a page whose file exists is skipped unless overwrite
page_skipped_m10(file_exists, overwrite) == FALSE

page_skipped(file_exists, overwrite) == file_exists /\ ~overwrite

\* sex in ['M', 'W', 'X']: the test of scrape_leaderboard and of
\* construct_leaderboard_url
sex_accepted_m6(sex) == TRUE

sex_accepted(sex) == sex \in {"M", "W", "X"}

construct_leaderboard_url_m11(season, event, sex, page) ==
    [raised |-> None,
     url |-> <<"https://results.hyrox.com", "/season-">> \o Digits(season)
               \o <<"/index.php", "?", "page=">> \o Digits(1)
               \o <<"&event=", event, "&pid=list", "&pidp=ranking_nav",
                    "&search%5Bsex%5D=", sex, "&search%5Bage_class%5D=%25">>]

\* scrape.construct_leaderboard_url: the URL, or <<>> with the error raised
construct_leaderboard_url(season, event, sex, page) ==
    IF ~sex_accepted(sex)
    THEN [raised |-> InvalidSex, url |-> <<>>]
    ELSE [raised |-> None,
          url |-> <<"https://results.hyrox.com", "/season-">> \o Digits(season)
                    \o <<"/index.php", "?", "page=">> \o Digits(page)
                    \o <<"&event=", event, "&pid=list", "&pidp=ranking_nav",
                         "&search%5Bsex%5D=", sex, "&search%5Bage_class%5D=%25">>]

\* scrape.scrape_leaderboard on a session showing `url`, when the load and
\* the parse of the leaderboard give `fetched`: the result, the URL built
\* (<<>> when none was), whether driver.get ran, the session afterwards
scrape_leaderboard(url, season, event, sex, page, fetched) ==
    IF ~sex_accepted(sex)
    THEN [result |-> InvalidSex, built |-> <<>>, loaded |-> FALSE, url |-> url]
    ELSE LET built == construct_leaderboard_url(season, event, sex, page)
         IN IF built.raised # None
            THEN [result |-> built.raised, built |-> <<>>, loaded |-> FALSE, url |-> url]
            ELSE [result |-> fetched, built |-> built.url, loaded |-> TRUE,
                  url |-> built.url]

VARIABLES
    lbPc,        \* scrape_leaderboards_command: "idle", "start", "loop", "returned", "raised"
    lbRun,       \* 1 in the first run of the command, 2 in the run after it
    seasons,     \* the catalogs read from in_dir
    lbOverwrite, \* overwrite
    lbFiles,     \* out_dir: the page files, path |-> document
    records,     \* the records of this run
    lbR,         \* position of the loop over the records
    lbPage,      \* the loop variable page
    lbSession,   \* "none", "open" or "quit": the command's driver
    lbUrl,       \* the URL the driver shows (<<>> before any load)
    lbFaults,    \* page fetches the environment has failed so far
    lbLast,      \* history: the last call of scrape_leaderboard
    lbFetched,   \* history: the page files whose URL this run loaded
    lbWritten,   \* history: the page files this run wrote
    lbOld,       \* history: out_dir as this run found it
    lbLoaded,    \* history: the URLs this run gave to driver.get, in order
    lbError      \* the exception the command raised (None when none)

lbVars ==
    <<lbPc, lbRun, seasons, lbOverwrite, lbFiles, records, lbR, lbPage, lbSession, lbUrl,
      lbFaults, lbLast, lbFetched, lbWritten, lbOld, lbLoaded, lbError>>

(***************************************************************************)
(* The catalogs given to scrape_leaderboards_command: one season whose     *)
(* events are drawn from EventPool.                                        *)
(***************************************************************************)
Gender(idx, gender, n_pages) ==
    [gender_index |-> idx, gender |-> gender, n_pages |-> n_pages]

Division(idx, name, event_id, genders) ==
    [division_index |-> idx, division_name |-> name, event_id |-> event_id,
     genders |-> genders]

Event(emg, event_id, divisions) ==
    [event_index |-> 0, event_id |-> event_id, event_main_group |-> emg,
     divisions |-> divisions]

EventPool ==
    { Event("A", "H1", <<Division(0, "Open", "H1", <<Gender(0, "Men", 2),
                                                      Gender(1, "Women", 1)>>)>>),
      Event("B", "H2", <<Division(0, "Doubles", "H2", <<Gender(0, "Mixed", 1),
                                                         Gender(1, "Men", 0)>>)>>),
      Event("C", "H3", <<Division(0, "Open", "H3", <<GenderError(0, Stale),
                                                      Gender(1, "Female", 1)>>)>>),
      Event("D", "H4", <<[division_index |-> 0, error_type |-> Stale],
                         Division(1, "Pro", "H4", <<Gender(0, "Men", 1)>>)>>),
      Event("E", "H5", <<Division(0, "Open", "H5", <<Gender(0, "Women", 2)>>)>>),
      [event_index |-> 0, error |-> Stale] }

Catalogs ==
    {<<[season |-> 1, name |-> "Season 1", events |-> events]>> :
        events \in SeqsUpTo(EventPool, MaxCatalogEvents)}

RowsDoc == "rows"
ErrorDoc == "error document"
FetchOutcomes == {Ok, Timeout}

NoCall ==
    [n |-> 0, file |-> <<>>, sex |-> None, result |-> None, built |-> <<>>,
     loaded |-> FALSE, before |-> <<>>]

\* lines 139-142: lb_data, the rows or what _log_error makes of the exception
page_document_m12(result) == RowsDoc

page_document(result) == IF result = Ok THEN RowsDoc ELSE ErrorDoc

\* every page file the records ask for
PageFiles(recs) ==
    UNION {{page_file(recs[x], page) : page \in 1..recs[x].n_pages} : x \in 1..Len(recs)}

AllRecords(cats) ==
    LET cleaned == clean_data(cats).records
    IN [x \in 1..Len(cleaned) |-> reformat(cleaned[x])]

LbIdle ==
    /\ lbPc = "idle"
    /\ lbRun = 0
    /\ seasons = <<>>
    /\ lbOverwrite = FALSE
    /\ lbFiles = <<>>
    /\ records = <<>>
    /\ lbR = 0
    /\ lbPage = 0
    /\ lbSession = "none"
    /\ lbUrl = <<>>
    /\ lbFaults = 0
    /\ lbLast = NoCall
    /\ lbFetched = {}
    /\ lbWritten = {}
    /\ lbOld = <<>>
    /\ lbLoaded = <<>>
    /\ lbError = None

LbInit ==
    /\ lbPc = "start"
    /\ lbRun = 1
    /\ seasons \in Catalogs
    /\ lbOverwrite \in BOOLEAN
    /\ \E old \in SUBSET PageFiles(AllRecords(seasons)) :
          /\ Cardinality(old) <= MaxOldFiles
          /\ lbFiles = [f \in old |-> RowsDoc]
    /\ records = <<>>
    /\ lbR = 0
    /\ lbPage = 0
    /\ lbSession = "none"
    /\ lbUrl = <<>>
    /\ lbFaults = 0
    /\ lbLast = NoCall
    /\ lbFetched = {}
    /\ lbWritten = {}
    /\ lbOld = lbFiles
    /\ lbLoaded = <<>>
    /\ lbError = None

\* lines 91-129: the catalogs are cleaned, the records built and planned,
\* the driver launched
LbStart ==
    /\ lbPc = "start"
    /\ LET cleaned == clean_data(seasons)
           built == [x \in 1..Len(cleaned.records) |-> reformat(cleaned.records[x])]
       IN IF cleaned.raised # None
          THEN /\ lbPc' = "raised"
               /\ lbError' = cleaned.raised
               /\ UNCHANGED <<records, lbR, lbPage, lbSession>>
          ELSE /\ records' = planned(built, DOMAIN lbFiles, lbOverwrite)
               /\ lbR' = 1
               /\ lbPage' = 1
               /\ lbSession' = "open"
               /\ lbPc' = "loop"
               /\ UNCHANGED lbError
    /\ UNCHANGED <<lbRun, seasons, lbOverwrite, lbFiles, lbUrl, lbFaults, lbLast,
                   lbFetched, lbWritten, lbOld, lbLoaded>>

\* lines 135-151: one page of the record
LbPage ==
    /\ lbPc = "loop"
    /\ lbR <= Len(records)
    /\ lbPage <= records[lbR].n_pages
    /\ LET record == records[lbR]
           file_path == page_file(record, lbPage)
       IN IF page_skipped(file_path \in DOMAIN lbFiles, lbOverwrite)
          THEN UNCHANGED <<lbFiles, lbUrl, lbFaults, lbLast, lbFetched, lbWritten,
                           lbLoaded>>
          ELSE \E fetched \in FetchOutcomes :
                 LET call == scrape_leaderboard(lbUrl, record.season, record.event,
                                                record.sex, lbPage, fetched)
                     lb_data == page_document(call.result)
                 IN /\ fetched = Ok \/ lbFaults < MaxLbFaults
                    /\ lbFaults' = IF call.loaded /\ fetched # Ok
                                   THEN lbFaults + 1 ELSE lbFaults
                    /\ lbUrl' = call.url
                    /\ lbLast' = [n |-> lbLast.n + 1, file |-> file_path,
                                  sex |-> record.sex, result |-> call.result,
                                  built |-> call.built, loaded |-> call.loaded,
                                  before |-> lbUrl]
                    /\ lbFetched' = IF call.loaded THEN lbFetched \cup {file_path}
                                    ELSE lbFetched
                    /\ lbWritten' = lbWritten \cup {file_path}
                    /\ lbLoaded' = IF call.loaded THEN Append(lbLoaded, call.built)
                                   ELSE lbLoaded
                    /\ lbFiles' = [f \in DOMAIN lbFiles \cup {file_path} |->
                                      IF f = file_path THEN lb_data ELSE lbFiles[f]]
    /\ lbPage' = lbPage + 1
    /\ UNCHANGED <<lbPc, lbRun, seasons, lbOverwrite, records, lbR, lbSession, lbOld,
                   lbError>>

\* line 152: the pages of the record are done
LbRecordDone ==
    /\ lbPc = "loop"
    /\ lbR <= Len(records)
    /\ lbPage > records[lbR].n_pages
    /\ lbR' = lbR + 1
    /\ lbPage' = 1
    /\ UNCHANGED <<lbPc, lbRun, seasons, lbOverwrite, lbFiles, records, lbSession, lbUrl,
                   lbFaults, lbLast, lbFetched, lbWritten, lbOld, lbLoaded, lbError>>

\* lines 153-159: the records are done, driver.quit()
LbReturn ==
    /\ lbPc = "loop"
    /\ lbR > Len(records)
    /\ lbSession' = "quit"
    /\ lbPc' = "returned"
    /\ UNCHANGED <<lbRun, seasons, lbOverwrite, lbFiles, records, lbR, lbPage, lbUrl,
                   lbFaults, lbLast, lbFetched, lbWritten, lbOld, lbLoaded, lbError>>

\* the command is run again on the same catalogs and the files it left
LbRunAgain ==
    /\ lbPc = "returned"
    /\ lbRun = 1
    /\ lbRun' = 2
    /\ lbPc' = "start"
    /\ lbOverwrite' \in BOOLEAN
    /\ records' = <<>>
    /\ lbR' = 0
    /\ lbPage' = 0
    /\ lbSession' = "none"
    /\ lbUrl' = <<>>
    /\ lbLast' = NoCall
    /\ lbFetched' = {}
    /\ lbWritten' = {}
    /\ lbOld' = lbFiles
    /\ lbLoaded' = <<>>
    /\ UNCHANGED <<seasons, lbFiles, lbFaults, lbError>>

(***************************************************************************)
(* scrape.select_results_from_dropdowns under its retry wrapper, one       *)
(* dropdown of its body per step.  The session records every selection     *)
(* made on it.                                                             *)
(***************************************************************************)
VARIABLES
    sDivision,   \* division_index
    sGender,     \* gender_index: <<>> for None, <<g>> otherwise
    sOptions,    \* whether the ranking and age-class dropdowns have options
    sAttempt,    \* attempt of the retry wrapper
    sPos,        \* position in select_steps of the running attempt
    sLog,        \* the selections made on the session, in order
    sMark,       \* length of sLog when the running attempt began
    sResult      \* "idle", "running", Ok or the exception raised

selVars == <<sDivision, sGender, sOptions, sAttempt, sPos, sLog, sMark, sResult>>

SelIdle ==
    /\ sDivision = 0
    /\ sGender = <<>>
    /\ sOptions = [ranking |-> FALSE, age_class |-> FALSE]
    /\ sAttempt = 0
    /\ sPos = 0
    /\ sLog = <<>>
    /\ sMark = 0
    /\ sResult = "idle"

SelInit ==
    /\ sDivision \in 0..MaxDivs
    /\ sGender \in {<<>>} \cup {<<g>> : g \in 0..MaxGenders}
    /\ sOptions \in [ranking : BOOLEAN, age_class : BOOLEAN]
    /\ sAttempt = 1
    /\ sPos = 1
    /\ sLog = <<>>
    /\ sMark = 0
    /\ sResult = "running"

\* one dropdown of the body: get_dropdown, then the selection.  An exception
\* ends the attempt; the wrapper starts the body again after staleness.
SelStep ==
    /\ sResult = "running"
    /\ sPos <= Len(select_steps(sGender))
    /\ \E outcome \in {Ok, Stale, Timeout} :
         IF outcome = Ok
         THEN /\ sLog' = sLog \o selection(select_steps(sGender)[sPos], sDivision,
                                           sGender, sOptions)
              /\ sPos' = sPos + 1
              /\ UNCHANGED <<sAttempt, sMark, sResult>>
         ELSE LET ctl == wrapper_step(DefaultTries, sAttempt, outcome)
              IN IF ctl = "continue"
                 THEN /\ sAttempt' = sAttempt + 1
                      /\ sPos' = 1
                      /\ sMark' = Len(sLog)
                      /\ UNCHANGED <<sLog, sResult>>
                 ELSE /\ sResult' = outcome
                      /\ UNCHANGED <<sAttempt, sPos, sLog, sMark>>
    /\ UNCHANGED <<sDivision, sGender, sOptions>>

\* line 246: the body returns, and the wrapper with it
SelReturn ==
    /\ sResult = "running"
    /\ sPos > Len(select_steps(sGender))
    /\ sResult' = Ok
    /\ UNCHANGED <<sDivision, sGender, sOptions, sAttempt, sPos, sLog, sMark>>

(***************************************************************************)
(* get_division_options on a division dropdown of any layout: a sequence   *)
(* of option groups and of options that lie in no option group, in         *)
(* document order.                                                         *)
(***************************************************************************)
Optgroup(label, options) == [label |-> label, options |-> options]
LooseOption(text) == [text |-> text]

\* division_dropdown_element.find_elements(By.TAG_NAME, 'optgroup')
optgroups_of(dropdown) ==
    LET is_optgroup(item) == "label" \in DOMAIN item
    IN SelectSeq(dropdown, is_optgroup)

\* Select.options: every option of the dropdown in document order, with the
\* position in the dropdown of the item it comes from
all_options(dropdown) ==
    Flatten([m \in 1..Len(dropdown) |->
               IF "label" \in DOMAIN dropdown[m]
               THEN [x \in 1..Len(dropdown[m].options) |->
                       [item |-> m, text |-> dropdown[m].options[x]]]
               ELSE <<[item |-> m, text |-> dropdown[m].text]>>])

\* Select.select_by_index(index) as select_results_from_dropdowns calls it
\* (line 233): the option selected, <<>> when there is none at that index
select_by_index(dropdown, index) ==
    IF index + 1 \in 1..Len(all_options(dropdown))
    THEN <<all_options(dropdown)[index + 1]>> ELSE <<>>

VARIABLES
    dDropdown,   \* the division dropdown of the page
    dLabel,      \* event_match_string
    dOut         \* <<>> before the call, <<option_indices>> after it

ddVars == <<dDropdown, dLabel, dOut>>

DropdownItems ==
    {LooseOption("All"), Optgroup("A", <<"Open", "Pro">>), Optgroup("B", <<"Open">>),
     Optgroup("C", <<>>)}

DdIdle ==
    /\ dDropdown = <<>>
    /\ dLabel = None
    /\ dOut = <<>>

DdInit ==
    /\ dDropdown \in SeqsUpTo(DropdownItems, MaxItems)
    /\ dLabel \in {"A", "B", "C"}
    /\ dOut = <<>>

GetDivisionOptions ==
    /\ dOut = <<>>
    /\ dOut' = <<get_division_options(optgroups_of(dDropdown), dLabel)>>
    /\ UNCHANGED <<dDropdown, dLabel>>

(***************************************************************************)
(* A retry-wrapped operation whose body calls another retry-wrapped        *)
(* operation, as navigate_to_results calls parse_season (scrape.py:78) and *)
(* select_results_from_dropdowns calls get_dropdown.  Every invocation of  *)
(* the inner body succeeds, goes stale or times out, with no limit on how  *)
(* often it goes stale.                                                    *)
(***************************************************************************)
VARIABLES
    tOuter,       \* attempt of the outer wrapper
    tInner,       \* attempt of the inner wrapper within the outer attempt
    tOuterCalls,  \* invocations of the outer body so far
    tInnerCalls,  \* invocations of the inner body so far
    tResult       \* "idle", "running", Ok or the exception that left the outer wrapper

nestVars == <<tOuter, tInner, tOuterCalls, tInnerCalls, tResult>>

NestIdle ==
    /\ tOuter = 0
    /\ tInner = 0
    /\ tOuterCalls = 0
    /\ tInnerCalls = 0
    /\ tResult = "idle"

\* the outer wrapper has invoked its body, which has reached the inner call
NestInit ==
    /\ tOuter = 1
    /\ tInner = 1
    /\ tOuterCalls = 1
    /\ tInnerCalls = 0
    /\ tResult = "running"

\* what the outer wrapper does with the exception its body let through
NestOuter(outcome) ==
    IF wrapper_step(DefaultTries, tOuter, outcome) = "continue"
    THEN /\ tOuter' = tOuter + 1
         /\ tOuterCalls' = tOuterCalls + 1
         /\ tInner' = 1
         /\ UNCHANGED tResult
    ELSE /\ tResult' = outcome
         /\ UNCHANGED <<tOuter, tOuterCalls, tInner>>

\* one invocation of the inner body
NestInvoke ==
    /\ tResult = "running"
    /\ tInner <= DefaultTries
    /\ \E outcome \in {Ok, Stale, Timeout}, rest \in {Ok, Stale, Timeout} :
         LET ctl == wrapper_step(DefaultTries, tInner, outcome)
         IN /\ tInnerCalls' = tInnerCalls + 1
            /\ IF ctl = "continue"
               THEN /\ tInner' = tInner + 1
                    /\ UNCHANGED <<tOuter, tOuterCalls, tResult>>
               ELSE IF ctl = "raise"
               THEN NestOuter(outcome)
               ELSE IF rest = Ok
               THEN /\ tResult' = Ok
                    /\ UNCHANGED <<tOuter, tOuterCalls, tInner>>
               ELSE NestOuter(rest)

(***************************************************************************)
(* The specifications: each runs one part of the program and leaves the    *)
(* state of the other parts idle.                                          *)
(***************************************************************************)
vars == <<retryVars, navVars, pagVars, crawlVars, batchVars, lbVars, selVars, ddVars, nestVars>>

InitRetry ==
    \/ RetryInit /\ NavIdle /\ PagIdle /\ CrawlIdle /\ BatchIdle /\ LbIdle /\ SelIdle
        /\ DdIdle /\ NestIdle

RetryNext ==
    \/ RetryAttempt /\ UNCHANGED <<navVars, pagVars, crawlVars, batchVars, lbVars
        , selVars, ddVars, nestVars>>
    \/ RetryFallThrough /\ UNCHANGED <<navVars, pagVars, crawlVars, batchVars, lbVars
        , selVars, ddVars, nestVars>>

SpecRetry == InitRetry /\ [][RetryNext]_vars

InitNav ==
    \/ NavInit /\ RetryIdle /\ PagIdle /\ CrawlIdle /\ BatchIdle /\ LbIdle /\ SelIdle
        /\ DdIdle /\ NestIdle

NavNext ==
    \/ NavAttempt /\ UNCHANGED <<retryVars, pagVars, crawlVars, batchVars, lbVars
        , selVars, ddVars, nestVars>>

SpecNav == InitNav /\ [][NavNext]_vars

InitPag ==
    \/ PagInit /\ RetryIdle /\ NavIdle /\ CrawlIdle /\ BatchIdle /\ LbIdle /\ SelIdle
        /\ DdIdle /\ NestIdle

PagNext ==
    \/ ParsePagination /\ UNCHANGED <<retryVars, navVars, crawlVars, batchVars, lbVars
        , selVars, ddVars, nestVars>>

SpecPag == InitPag /\ [][PagNext]_vars

InitCrawl ==
    \/ CrawlInit /\ RetryIdle /\ NavIdle /\ PagIdle /\ BatchIdle /\ LbIdle /\ SelIdle
        /\ DdIdle /\ NestIdle

CrawlNext ==
    \/ CrawlStart /\ UNCHANGED <<retryVars, navVars, pagVars, batchVars, lbVars, selVars
        , ddVars, nestVars>>
    \/ CrawlRoot /\ UNCHANGED <<retryVars, navVars, pagVars, batchVars, lbVars, selVars
        , ddVars, nestVars>>
    \/ CrawlEvent /\ UNCHANGED <<retryVars, navVars, pagVars, batchVars, lbVars, selVars
        , ddVars, nestVars>>
    \/ CrawlReturn /\ UNCHANGED <<retryVars, navVars, pagVars, batchVars, lbVars
        , selVars, ddVars, nestVars>>
    \/ CrawlDivision /\ UNCHANGED <<retryVars, navVars, pagVars, batchVars, lbVars
        , selVars, ddVars, nestVars>>
    \/ CrawlEventDone /\ UNCHANGED <<retryVars, navVars, pagVars, batchVars, lbVars
        , selVars, ddVars, nestVars>>
    \/ CrawlGender /\ UNCHANGED <<retryVars, navVars, pagVars, batchVars, lbVars
        , selVars, ddVars, nestVars>>
    \/ CrawlDivisionDone /\ UNCHANGED <<retryVars, navVars, pagVars, batchVars, lbVars
        , selVars, ddVars, nestVars>>

SpecCrawl == InitCrawl /\ [][CrawlNext]_vars

InitLb ==
    \/ LbInit /\ RetryIdle /\ NavIdle /\ PagIdle /\ CrawlIdle /\ BatchIdle /\ SelIdle
        /\ DdIdle /\ NestIdle

LbNext ==
    \/ LbStart /\ UNCHANGED <<retryVars, navVars, pagVars, crawlVars, batchVars, selVars
        , ddVars, nestVars>>
    \/ LbPage /\ UNCHANGED <<retryVars, navVars, pagVars, crawlVars, batchVars, selVars
        , ddVars, nestVars>>
    \/ LbRecordDone /\ UNCHANGED <<retryVars, navVars, pagVars, crawlVars, batchVars
        , selVars, ddVars, nestVars>>
    \/ LbReturn /\ UNCHANGED <<retryVars, navVars, pagVars, crawlVars, batchVars
        , selVars, ddVars, nestVars>>
    \/ LbRunAgain /\ UNCHANGED <<retryVars, navVars, pagVars, crawlVars, batchVars
        , selVars, ddVars, nestVars>>

SpecLb == InitLb /\ [][LbNext]_vars

InitSel ==
    \/ SelInit /\ RetryIdle /\ NavIdle /\ PagIdle /\ CrawlIdle /\ BatchIdle /\ LbIdle
        /\ DdIdle /\ NestIdle

SelNext ==
    \/ SelStep /\ UNCHANGED <<retryVars, navVars, pagVars, crawlVars, batchVars, lbVars
        , ddVars, nestVars>>
    \/ SelReturn /\ UNCHANGED <<retryVars, navVars, pagVars, crawlVars, batchVars
        , lbVars, ddVars, nestVars>>

SpecSel == InitSel /\ [][SelNext]_vars

InitDd ==
    \/ DdInit /\ RetryIdle /\ NavIdle /\ PagIdle /\ CrawlIdle /\ BatchIdle /\ LbIdle
        /\ SelIdle /\ NestIdle

DdNext ==
    \/ GetDivisionOptions /\ UNCHANGED <<retryVars, navVars, pagVars, crawlVars
        , batchVars, lbVars, selVars, nestVars>>

SpecDd == InitDd /\ [][DdNext]_vars

InitTerm ==
    \/ CrawlInit /\ RetryIdle /\ NavIdle /\ PagIdle /\ BatchIdle /\ LbIdle /\ SelIdle
        /\ DdIdle /\ NestIdle
    \/ NestInit /\ RetryIdle /\ NavIdle /\ PagIdle /\ CrawlIdle /\ BatchIdle /\ LbIdle
        /\ SelIdle /\ DdIdle

TermNext ==
    \/ CrawlStart /\ UNCHANGED <<retryVars, navVars, pagVars, batchVars, lbVars, selVars
        , ddVars, nestVars>>
    \/ CrawlRoot /\ UNCHANGED <<retryVars, navVars, pagVars, batchVars, lbVars, selVars
        , ddVars, nestVars>>
    \/ CrawlEvent /\ UNCHANGED <<retryVars, navVars, pagVars, batchVars, lbVars, selVars
        , ddVars, nestVars>>
    \/ CrawlReturn /\ UNCHANGED <<retryVars, navVars, pagVars, batchVars, lbVars
        , selVars, ddVars, nestVars>>
    \/ CrawlDivision /\ UNCHANGED <<retryVars, navVars, pagVars, batchVars, lbVars
        , selVars, ddVars, nestVars>>
    \/ CrawlEventDone /\ UNCHANGED <<retryVars, navVars, pagVars, batchVars, lbVars
        , selVars, ddVars, nestVars>>
    \/ CrawlGender /\ UNCHANGED <<retryVars, navVars, pagVars, batchVars, lbVars
        , selVars, ddVars, nestVars>>
    \/ CrawlDivisionDone /\ UNCHANGED <<retryVars, navVars, pagVars, batchVars, lbVars
        , selVars, ddVars, nestVars>>
    \/ NestInvoke /\ UNCHANGED <<retryVars, navVars, pagVars, crawlVars, batchVars
        , lbVars, selVars, ddVars>>

SpecTerm == InitTerm /\ [][TermNext]_vars /\ WF_vars(TermNext)

InitBatch ==
    \/ BatchEntered /\ RetryIdle /\ NavIdle /\ PagIdle /\ LbIdle /\ SelIdle /\ DdIdle
        /\ NestIdle
    \/ CrawlEntered /\ RetryIdle /\ NavIdle /\ PagIdle /\ LbIdle /\ SelIdle /\ DdIdle
        /\ NestIdle
    \/ NavInit /\ RetryIdle /\ PagIdle /\ CrawlIdle /\ BatchIdle /\ LbIdle /\ SelIdle
        /\ DdIdle /\ NestIdle

BatchNext ==
    \/ NavAttempt /\ UNCHANGED <<retryVars, pagVars, crawlVars, batchVars, lbVars
        , selVars, ddVars, nestVars>>
    \/ CrawlStart /\ UNCHANGED <<retryVars, navVars, pagVars, batchVars, lbVars, selVars
        , ddVars, nestVars>>
    \/ CrawlRoot /\ UNCHANGED <<retryVars, navVars, pagVars, batchVars, lbVars, selVars
        , ddVars, nestVars>>
    \/ CrawlEvent /\ UNCHANGED <<retryVars, navVars, pagVars, batchVars, lbVars, selVars
        , ddVars, nestVars>>
    \/ CrawlReturn /\ UNCHANGED <<retryVars, navVars, pagVars, batchVars, lbVars
        , selVars, ddVars, nestVars>>
    \/ CrawlDivision /\ UNCHANGED <<retryVars, navVars, pagVars, batchVars, lbVars
        , selVars, ddVars, nestVars>>
    \/ CrawlEventDone /\ UNCHANGED <<retryVars, navVars, pagVars, batchVars, lbVars
        , selVars, ddVars, nestVars>>
    \/ CrawlGender /\ UNCHANGED <<retryVars, navVars, pagVars, batchVars, lbVars
        , selVars, ddVars, nestVars>>
    \/ CrawlDivisionDone /\ UNCHANGED <<retryVars, navVars, pagVars, batchVars, lbVars
        , selVars, ddVars, nestVars>>
    \/ BatchStart /\ UNCHANGED <<retryVars, navVars, pagVars, lbVars, selVars, ddVars
        , nestVars>>
    \/ BatchSkip /\ UNCHANGED <<retryVars, navVars, pagVars, lbVars, selVars, ddVars
        , nestVars>>
    \/ BatchCrawl /\ UNCHANGED <<retryVars, navVars, pagVars, lbVars, selVars, ddVars
        , nestVars>>
    \/ BatchWrite /\ UNCHANGED <<retryVars, navVars, pagVars, lbVars, selVars, ddVars
        , nestVars>>
    \/ BatchPropagate /\ UNCHANGED <<retryVars, navVars, pagVars, lbVars, selVars
        , ddVars, nestVars>>
    \/ BatchReturn /\ UNCHANGED <<retryVars, navVars, pagVars, lbVars, selVars, ddVars
        , nestVars>>

SpecBatch == InitBatch /\ [][BatchNext]_vars

\* end of the specifications

(***************************************************************************)
(* Claims about the retry wrapper (SpecRetry).                             *)
(***************************************************************************)
StaleRun(n) == \A p \in 1..n : rScript[p] = Stale

\* C1: with tries = max_attempts, an operation that raises the staleness
\* error max_attempts - 1 times and then succeeds returns the successful
\* result; one that raises it max_attempts times makes the wrapper propagate
\* the staleness error; the operation is never invoked more than
\* max_attempts times.
C1_RetryBound ==
    /\ rCalls <= rTries
    /\ (rResult # "running" /\ rTries >= 1) =>
         /\ (StaleRun(rTries - 1) /\ rScript[rTries] = Ok)
               => (rResult = Ok /\ rCalls = rTries)
         /\ StaleRun(rTries) => (rResult = Stale /\ rCalls = rTries)

C1_Witness ==
    /\ rTries = MaxTries
    /\ StaleRun(rTries - 1)
    /\ rResult = Ok
    /\ rCalls = rTries

\* C2: an error of any kind other than staleness propagates at the failure
\* that raised it and the operation is not invoked again; when it is the
\* first failure the operation has been invoked exactly once.
C2_OtherErrorsNotRetried ==
    rResult # "running" =>
        \A p \in 1..rTries :
            (rScript[p] \in OtherErrors /\ StaleRun(p - 1))
                => (rResult = rScript[p] /\ rCalls = p)

C2_Witness ==
    /\ rTries = MaxTries
    /\ rScript[1] \in {Timeout, NotFound}
    /\ rResult = rScript[1]
    /\ rCalls = 1

(***************************************************************************)
(* Claims about navigate_to_results (SpecNav).                             *)
(***************************************************************************)
NavDone == nResult \notin {"idle", "running"}

C8_EventGroupEchoChecked ==
    (nResult = Ok /\ nEmg # None) => nPage.emg = nEmg

\* C8 as amended: called with an event group, navigate_to_results returns
\* successfully only if the marker was visible, the resulting URL starts
\* with the requested season path and the season read from the page is the
\* requested season; the echoed event group is not compared.
C8_SeasonOnlyValidated ==
    (nResult = Ok /\ nEmg # None) =>
        /\ nPage.marker = Ok
        /\ startswith(landed_url(nPage.season, nPage.emg), path_url(nSeason))
        /\ nPage.switcher = Ok
        /\ nPage.season = nSeason

C8_Witness ==
    /\ nResult = Ok
    /\ nEmg = "A"
    /\ nPage.emg = "B"

(***************************************************************************)
(* Claims about parse_pagination (SpecPag).                                *)
(***************************************************************************)
LinkIdx == 1..Len(pDom.links)
LinksNumeric == \A x \in LinkIdx : pDom.links[x].kind # "text"

\* C9: parse_pagination returns 0 whenever the no-results notice is present,
\* whatever the pagination control; otherwise 1 when no pagination control
\* is rendered; otherwise the maximum page number carried by the control's
\* links, and never less than 1.
C9_PaginationBranches ==
    pOut # NoOut =>
        /\ pDom.alert => pOut = Returned(0)
        /\ (~pDom.alert /\ ~pDom.pagination) => pOut = Returned(1)
        /\ (~pDom.alert /\ pDom.pagination /\ LinksNumeric) =>
              /\ pOut.raised = None
              /\ pOut.value >= 1
              /\ \A x \in LinkIdx :
                    pDom.links[x].kind = "int" => pDom.links[x].n <= pOut.value
              /\ \/ pOut.value = 1
                 \/ \E x \in LinkIdx :
                       pDom.links[x].kind = "int" /\ pDom.links[x].n = pOut.value

C9_Witness ==
    /\ ~pDom.alert
    /\ pDom.pagination
    /\ Len(pDom.links) = 3
    /\ pDom.links[1] = [kind |-> "int", n |-> 1]
    /\ pDom.links[2] = [kind |-> "int", n |-> 5]
    /\ pDom.links[3] = [kind |-> "int", n |-> 2]
    /\ pOut = Returned(5)

(***************************************************************************)
(* Claims about scrape_hyrox_season (SpecCrawl).                           *)
(***************************************************************************)
EventFailed(i) == <<"event", i>> \in cFailed
DivisionFailed(i, j) == <<"division", i, j>> \in cFailed

Events == season_dict.events

\* the options the site offers for the event group at position x
OfferedDivisions(x) ==
    get_division_options(DivisionDropdown(site, x), event_main_groups[x].text)

\* an event entry with all its divisions, each complete or an error leaf of
\* its own, and all the genders of every complete division
CompleteEvent(e, x) ==
    /\ ~IsError(e)
    /\ e.event_main_group = event_main_groups[x].text
    /\ Len(e.divisions) = Len(OfferedDivisions(x))
    /\ \A d \in 1..Len(e.divisions) :
          \/ IsError(e.divisions[d])
          \/ /\ e.divisions[d].division_index = OfferedDivisions(x)[d].index
             /\ Len(e.divisions[d].genders) = site.nGenders

\* C3: when the root navigation succeeded and the event-level steps of some
\* event groups raised, the returned catalog has one entry per event group
\* in dropdown order, the entry of a failed group is an error leaf carrying
\* its event_index, and the entries of all other groups are complete.
C3_EventFailureIsolated ==
    (cPc = "returned" /\ \E x \in 1..Len(event_main_groups) :
                            EventFailed(event_main_groups[x].index)) =>
        /\ Len(Events) = Len(event_main_groups)
        /\ \A x \in 1..Len(Events) :
              /\ Events[x].event_index = event_main_groups[x].index
              /\ EventFailed(event_main_groups[x].index) =>
                    (IsError(Events[x]) /\ DOMAIN Events[x] = {"event_index", "error"})
              /\ ~EventFailed(event_main_groups[x].index) => CompleteEvent(Events[x], x)

\* C4: when the steps of the division with ordinal j raise, an error leaf
\* carrying division_index = j stands at that division's place in the
\* divisions of its event, the other divisions of the event are in the
\* catalog and the event is not turned into an error leaf, whichever
\* division fails.
C4_DivisionFailureIsolated ==
    cPc = "returned" =>
        \A x \in 1..Len(Events) :
            \A d \in 1..Len(OfferedDivisions(x)) :
                DivisionFailed(event_main_groups[x].index, OfferedDivisions(x)[d].index) =>
                    /\ ~IsError(Events[x])
                    /\ Len(Events[x].divisions) = Len(OfferedDivisions(x))
                    /\ IsError(Events[x].divisions[d])
                    /\ Events[x].divisions[d].division_index = OfferedDivisions(x)[d].index

(***************************************************************************)
(* Claims about the entry points (SpecBatch).                              *)
(***************************************************************************)
\* C5: for every season < 1, navigate_to_results, scrape_hyrox_season and
\* scrape_divisions_command (season_start < 1) raise the invalid-argument
\* error before they launch a browser session and before any URL is loaded.
C5_InvalidSeasonFailsFast ==
    /\ (nResult # "idle" /\ nSeason < 1) =>
          /\ nLoads = 0
          /\ nPage = NoPage
          /\ NavDone => nResult = InvalidSeason
    /\ (bPc = "idle" /\ cPc # "idle" /\ cSeason < 1) =>
          /\ cLaunched = 0
          /\ cLoads = 0
          /\ cSession = "none"
          /\ cPc # "start" => (cPc = "raised" /\ cError = InvalidSeason)
    /\ (bPc # "idle" /\ bStart < 1) =>
          /\ cLaunched = 0
          /\ cLoads = 0
          /\ cPc = "idle"
          /\ bPc # "start" => (bPc = "raised" /\ bError = InvalidStart)

C5_Witness ==
    /\ bPc = "raised"
    /\ bStart = 0
    /\ bError = InvalidStart
    /\ cLaunched = 0


(***************************************************************************)
(* C6: for every sex value outside {M, W, X}, scrape_leaderboard fails     *)
(* with the invalid-argument error before a URL is built and before the    *)
(* session loads anything, and the session shows after the call what it    *)
(* showed before it.                                                       *)
(***************************************************************************)
C6_InvalidSexFailsFast ==
    (lbLast.sex \notin {None, "M", "W", "X"}) =>
        /\ lbLast.result = InvalidSex
        /\ lbLast.built = <<>>
        /\ ~lbLast.loaded
        /\ lbUrl = lbLast.before

\* a call with sex "F" on a session that has already loaded a leaderboard
C6_Witness ==
    /\ lbLast.sex = "F"
    /\ lbLast.result = InvalidSex
    /\ lbLast.before # <<>>
    /\ lbUrl = lbLast.before

(***************************************************************************)
(* C10: a second run of scrape_leaderboards_command with overwrite=false   *)
(* on the same catalogs and the files the first run left loads no          *)
(* leaderboard URL and writes no page document.                            *)
(***************************************************************************)
C10_SecondRunDoesNothing ==
    (lbRun = 2 /\ ~lbOverwrite) => (lbFetched = {} /\ lbWritten = {})

\* the second run has gone through records whose pages the first run wrote
C10_Witness ==
    /\ lbRun = 2
    /\ ~lbOverwrite
    /\ lbPc = "returned"
    /\ Len(records) > 1
    /\ PageFiles(records) \subseteq DOMAIN lbFiles
    /\ \E f \in DOMAIN lbFiles : lbFiles[f] = ErrorDoc
    /\ lbFetched = {}
    /\ lbWritten = {}


(***************************************************************************)
(* C11: for a catalog with one event group, one division and one gender    *)
(* leaf of two pages, and an empty out_dir, the leaderboard batch leaves   *)
(* exactly the documents of pages 1 and 2, and the two URLs it loads are   *)
(* the same but for the value of the page parameter (1, then 2).           *)
(***************************************************************************)
IndexOf(seq, x) == CHOOSE i \in 1..Len(seq) : seq[i] = x /\ \A h \in 1..(i - 1) : seq[h] # x

page_value(url) == SubSeq(url, IndexOf(url, "page=") + 1, IndexOf(url, "&event=") - 1)

without_page_value(url) ==
    SubSeq(url, 1, IndexOf(url, "page=")) \o SubSeq(url, IndexOf(url, "&event="), Len(url))

OneLeafOfTwoPages ==
    /\ Len(seasons) = 1
    /\ Len(seasons[1].events) = 1
    /\ "divisions" \in DOMAIN seasons[1].events[1]
    /\ Len(seasons[1].events[1].divisions) = 1
    /\ "genders" \in DOMAIN seasons[1].events[1].divisions[1]
    /\ Len(seasons[1].events[1].divisions[1].genders) = 1
    /\ has_pages(seasons[1].events[1].divisions[1].genders[1])
    /\ seasons[1].events[1].divisions[1].genders[1].n_pages = 2

C11_TwoPagesTwoDocuments ==
    (lbPc = "returned" /\ lbRun = 1 /\ OneLeafOfTwoPages /\ lbOld = <<>>) =>
        LET record == AllRecords(seasons)[1]
        IN /\ DOMAIN lbFiles = {page_file(record, 1), page_file(record, 2)}
           /\ Len(lbLoaded) = 2
           /\ without_page_value(lbLoaded[1]) = without_page_value(lbLoaded[2])
           /\ page_value(lbLoaded[1]) = Digits(1)
           /\ page_value(lbLoaded[2]) = Digits(2)

C11_Witness ==
    /\ lbPc = "returned"
    /\ lbRun = 1
    /\ OneLeafOfTwoPages
    /\ lbOld = <<>>
    /\ Cardinality(DOMAIN lbFiles) = 2
    /\ Len(lbLoaded) = 2
    /\ lbLoaded[1] # lbLoaded[2]


(***************************************************************************)
(* C12: when the fetch of a page fails in the leaderboard batch, an error  *)
(* document is written to the file of that page, every other file of       *)
(* out_dir keeps its document, and the batch goes on: when it returns,     *)
(* every page of every record has a file.                                  *)
(***************************************************************************)
FetchFailed == lbLast'.n = lbLast.n + 1 /\ lbLast'.result # Ok

C12_FailedFetchOwnSlot ==
    /\ [][FetchFailed =>
            /\ DOMAIN lbFiles' = DOMAIN lbFiles \cup {lbLast'.file}
            /\ lbFiles'[lbLast'.file] = ErrorDoc
            /\ \A f \in DOMAIN lbFiles \ {lbLast'.file} : lbFiles'[f] = lbFiles[f]
            /\ lbPc' = "loop"
            /\ lbError' = None]_vars
    /\ [](lbPc = "returned" => PageFiles(records) \subseteq DOMAIN lbFiles)

\* a run that returned after a failed fetch, with an old document kept and
\* rows written for another page
C12_Witness ==
    /\ lbPc = "returned"
    /\ lbFaults > 0
    /\ \E f \in lbWritten, g \in DOMAIN lbOld \ lbWritten, h \in lbWritten :
          /\ lbFiles[f] = ErrorDoc
          /\ lbFiles[g] = lbOld[g]
          /\ lbFiles[h] = RowsDoc


(***************************************************************************)
(* C13: in a run with overwrite that follows a run which left error        *)
(* documents, the pages attempted are exactly those whose document was an  *)
(* error document; a page whose document holds rows is not fetched again.  *)
(***************************************************************************)
ErrorSlots == {f \in DOMAIN lbOld : lbOld[f] = ErrorDoc}

C13_RetryOnlyFailedSlots ==
    (lbRun = 2 /\ lbOverwrite /\ ErrorSlots # {}) =>
        /\ lbWritten \cup lbFetched \subseteq ErrorSlots
        /\ lbPc = "returned" => ErrorSlots \subseteq lbWritten


(***************************************************************************)
(* C14: in scrape_divisions_command the failure of one season (root        *)
(* navigation or season identity) does not end the batch: when the command *)
(* has ended, every season of the range after a failed one has been        *)
(* crawled and has its catalog file.                                       *)
(***************************************************************************)
C14_SeasonFailureNotFatal ==
    (bPc \in {"raised", "returned"} /\ bLast >= 1) =>
        \A later \in (bSeason + 1)..bLast :
            /\ bFiles[later] # Absent
            /\ bOverwrite => bFiles[later] = NewFile


Range(seq) == {seq[x] : x \in 1..Len(seq)}

\* the gender entries of the catalogs that carry pages, with their division
Leaves(cats) ==
    {<<season.season, division.event_id, gender>> :
        <<season, division, gender>> \in
            {t \in UNION {UNION {UNION {{<<season, division, gender>> :
                                           gender \in Range(division.genders)} :
                                        division \in {d \in Range(event.divisions) :
                                                        "genders" \in DOMAIN d}} :
                                 event \in {e \in Range(season.events) :
                                              "divisions" \in DOMAIN e}} :
                          season \in Range(cats)} :
                has_pages(t[3])}}

WorkItems(cats) ==
    UNION {{<<leaf[1], leaf[2], sex_of(leaf[3].gender), page>> :
              page \in 1..leaf[3].n_pages} : leaf \in Leaves(cats)}

C16_WorkListExpansion ==
    (lbPc \in {"returned", "raised"}) =>
        lbWritten = IF lbOverwrite THEN WorkItems(seasons)
                    ELSE WorkItems(seasons) \ DOMAIN lbOld


(***************************************************************************)
(* C17: a run of scrape_hyrox_season that launched a session has closed it *)
(* when it ends, whether it returns a catalog or raises at the season      *)
(* root.                                                                   *)
(***************************************************************************)
C17_SessionClosedAtEnd ==
    (cPc \in {"returned", "raised"} /\ cSession # "none") => cSession = "quit"


(***************************************************************************)
(* C18: in every attempt of select_results_from_dropdowns the selections   *)
(* are made in the order division, ranking filter to Total (if it has      *)
(* options), age-class filter to All (if it has options), gender (if       *)
(* given, and last); a retry starts again from the division, and a         *)
(* successful return follows one complete sequence.                        *)
(***************************************************************************)
ExpectedSelections ==
    <<[control |-> "event", index |-> sDivision]>>
        \o (IF sOptions.ranking THEN <<[control |-> "ranking", text |-> "Total"]>> ELSE <<>>)
        \o (IF sOptions.age_class THEN <<[control |-> "age_class", text |-> "All"]>>
            ELSE <<>>)
        \o (IF sGender # <<>> THEN <<[control |-> "sex", index |-> sGender[1]]>> ELSE <<>>)

AttemptSelections == SubSeq(sLog, sMark + 1, Len(sLog))

C18_SelectionOrder ==
    (sResult # "idle") =>
        /\ Len(AttemptSelections) <= Len(ExpectedSelections)
        /\ AttemptSelections = SubSeq(ExpectedSelections, 1, Len(AttemptSelections))
        /\ sResult = Ok => AttemptSelections = ExpectedSelections

\* a return after a retry that had already selected the division: the last
\* attempt made all four selections, the gender last
C18_Witness ==
    /\ sResult = Ok
    /\ sAttempt > 1
    /\ sMark > 0
    /\ Len(AttemptSelections) = 4
    /\ sLog[Len(sLog)].control = "sex"


(***************************************************************************)
(* C19: get_division_options returns exactly the options of the option     *)
(* group labelled event_match_string, each under the index at which        *)
(* select_by_index selects that very option, whatever the layout of the    *)
(* dropdown, options outside option groups included.                       *)
(***************************************************************************)
Labelled == {m \in 1..Len(dDropdown) : "label" \in DOMAIN dDropdown[m]
                                         /\ dDropdown[m].label = dLabel}

C19_AbsoluteOptionIndices ==
    (dOut # <<>>) =>
        IF Labelled = {} THEN dOut[1] = <<>>
        ELSE LET m == CHOOSE first \in Labelled : \A other \in Labelled : first <= other
                 options == dDropdown[m].options
             IN /\ Len(dOut[1]) = Len(options)
                /\ \A x \in 1..Len(options) :
                      /\ dOut[1][x].text = options[x]
                      /\ select_by_index(dDropdown, dOut[1][x].index)
                            = <<[item |-> m, text |-> options[x]]>>


(***************************************************************************)
(* C20: in scrape_hyrox_season the gender options of division j are read   *)
(* when j is the division last selected and no gender has been selected    *)
(* since; every n_pages stored under division j is read when j is the      *)
(* division and the entry's gender the gender last selected, so it is the  *)
(* page count of that division and gender and of no other.                 *)
(***************************************************************************)
C20_OrderingDiscipline ==
    /\ \A read \in Range(cReads.options) :
          /\ read.session.division = <<read.division_index>>
          /\ read.session.gender = <<>>
    /\ \A read \in Range(cReads.pages) :
          /\ read.session.division = <<read.division_index>>
          /\ read.session.gender = <<read.gender_index>>
    /\ cPc = "genders" =>
          \A entry \in Range(division_dict.genders) :
              "n_pages" \in DOMAIN entry =>
                  entry.n_pages =
                      parse_pagination(SiteDom(event_main_groups[cI].index,
                                               division_dict.division_index,
                                               entry.gender_index)).value

\* the genders of a second division, read after another division had been
\* selected on the same page
C20_Witness ==
    /\ cPc = "genders"
    /\ cJ > 1
    /\ cK > Len(gender_options)
    /\ \E entry \in Range(division_dict.genders) : "n_pages" \in DOMAIN entry
    /\ cReads.pages # <<>>
    /\ cReads.pages[1].division_index = division_dict.division_index


(***************************************************************************)
(* C21: the catalog of one run of scrape_hyrox_season only grows: an event *)
(* entry appended to the season's events, a division entry appended to an  *)
(* event's divisions and a gender entry appended to a division's genders   *)
(* stay in the catalog as they were appended, whatever fails afterwards.   *)
(***************************************************************************)
IsPrefix(a, b) == Len(a) <= Len(b) /\ SubSeq(b, 1, Len(a)) = a

\* the entry of the event group being crawled, after the step: the entry
\* under construction, or the one the step appended to the season
EventEntryAfter == IF cI' = cI THEN event_dict' ELSE season_dict'.events[cI]

\* the entry of the division being crawled, after the step
DivisionEntryAfter ==
    IF cPc' = "genders" THEN division_dict'
    ELSE event_dict'.divisions[Len(event_dict'.divisions)]

C21_CatalogAppendOnly ==
    [][/\ (cPc \in {"events", "divisions", "genders"}) =>
              IsPrefix(season_dict.events, season_dict'.events)
       /\ (cPc \in {"divisions", "genders"} /\ event_dict.divisions # <<>>) =>
              /\ "divisions" \in DOMAIN EventEntryAfter
              /\ IsPrefix(event_dict.divisions, EventEntryAfter.divisions)
       /\ (cPc = "genders" /\ division_dict.genders # <<>>) =>
              /\ "genders" \in DOMAIN DivisionEntryAfter
              /\ IsPrefix(division_dict.genders, DivisionEntryAfter.genders)]_vars


(***************************************************************************)
(* C22: clean_data accepts every catalog scrape_hyrox_season returns: it   *)
(* does not raise on error leaves at the event, division or gender level,  *)
(* and its records are those of the gender entries with n_pages > 0, the   *)
(* error leaves giving none.                                               *)
(***************************************************************************)
C22_PlannerAcceptsCatalog ==
    (cPc = "returned") =>
        LET cleaned == clean_data(<<season_dict>>)
        IN /\ cleaned.raised = None
           /\ {<<record.season, record.event_id, record.gender, record.n_pages>> :
                  record \in Range(cleaned.records)}
                 = {<<leaf[1], leaf[2], leaf[3].gender, leaf[3].n_pages>> :
                      leaf \in Leaves(<<season_dict>>)}


(***************************************************************************)
(* C23: scrape_hyrox_season terminates: whatever the tree of event groups, *)
(* divisions and genders and whatever its steps give, the crawl eventually *)
(* returns or raises; a retry-wrapped operation is invoked at most tries   *)
(* times by its wrapper, and an operation wrapped inside another at most   *)
(* tries * tries times, even when staleness never stops.                   *)
(***************************************************************************)
CrawlEnded == cPc \in {"idle", "returned", "raised"}
NestEnded == tResult # "running"

C23_CrawlTerminates ==
    /\ <>(CrawlEnded /\ NestEnded)
    /\ [](tOuterCalls <= DefaultTries /\ tInnerCalls <= DefaultTries * DefaultTries)

\* a crawl that returned a catalog of the whole tree after MaxFaults of its
\* steps had failed
C23_Witness ==
    /\ cPc = "returned"
    /\ cFaults = MaxFaults
    /\ Len(season_dict.events) = MaxEvents
    /\ \E e \in Range(season_dict.events) :
          "divisions" \in DOMAIN e /\ Len(e.divisions) = MaxDivs

====
